---------------------------- MODULE Spec2Model ----------------------------
(***************************************************************************)
(* d3Conduit (src/src/d3Conduit.js): a factory that validates two          *)
(* callbacks, resolves options against defaults and returns a React        *)
(* component class whose lifecycle hooks drive the callbacks against one   *)
(* svg node and register a resize listener on window.                      *)
(***************************************************************************)
EXTENDS Integers, Sequences, FiniteSets, TLC

(***************************************************************************)
(* JavaScript values, tagged by their typeof.                              *)
(***************************************************************************)
Undefined == [t |-> "undefined"]

Null == [t |-> "null"]

Num(n) == [t |-> "number", v |-> n]

Str(s) == [t |-> "string", v |-> s]

NaN == [t |-> "NaN"]

Obj(fields) == [t |-> "object", f |-> fields]

NoFields == [k \in {} |-> Undefined]

isObject(x) == x.t = "object"

Keys(o) == DOMAIN o.f

\* o[k]: undefined for a key the object does not have
Get(o, k) == IF k \in Keys(o) THEN o.f[k] ELSE Undefined

(***************************************************************************)
(* Bounds of the model.                                                    *)
(***************************************************************************)
MaxInstances == 2

MaxDeliveries == 2

MaxResize == 2

(***************************************************************************)
(* The defaults literal of the factory, lines 29-38.                       *)
(***************************************************************************)
DefaultWidth == 900

DefaultHeight == 500

DefaultMarginTop == 120

DefaultMarginRight == 50

DefaultMarginBottom == 150

DefaultMarginLeft == 150

Sides == {"top", "right", "bottom", "left"}

DefaultMargin ==
  Obj([s \in Sides |->
        CASE s = "top" -> Num(DefaultMarginTop)
          [] s = "right" -> Num(DefaultMarginRight)
          [] s = "bottom" -> Num(DefaultMarginBottom)
          [] s = "left" -> Num(DefaultMarginLeft)])

Defaults ==
  Obj([k \in {"width", "height", "margin"} |->
        CASE k = "width" -> Num(DefaultWidth)
          [] k = "height" -> Num(DefaultHeight)
          [] k = "margin" -> DefaultMargin])

(***************************************************************************)
(* lodash defaultsDeep(object, source) as called on lines 27-39: every key *)
(* of source whose value in object is undefined takes source's value; a    *)
(* key that holds an object on both sides is filled recursively; any other *)
(* value of object is kept.  An undefined object is replaced by a fresh    *)
(* empty one (Object(undefined)).  The result is the value the destination *)
(* object holds afterwards: lodash fills the destination in place.         *)
(***************************************************************************)
RECURSIVE baseMerge(_, _)
baseMerge(object, source) ==
  Obj([k \in Keys(object) \cup Keys(source) |->
        IF k \notin Keys(source) THEN object.f[k]
        ELSE LET objValue == Get(object, k)
                 srcValue == source.f[k]
             IN  IF isObject(srcValue)
                 THEN IF isObject(objValue) THEN baseMerge(objValue, srcValue)
                      ELSE IF objValue = Undefined
                           THEN baseMerge(Obj(NoFields), srcValue)
                           ELSE objValue
                 ELSE IF objValue = Undefined THEN srcValue ELSE objValue])

\* a plausible slip: lodash defaults (shallow) in place of defaultsDeep
ShallowDefaults(object, source) ==
  LET dest == IF isObject(object) THEN object ELSE Obj(NoFields)
  IN  Obj([k \in Keys(dest) \cup Keys(source) |->
            IF Get(dest, k) = Undefined THEN source.f[k] ELSE dest.f[k]])

defaultsDeep(object, source) ==
  baseMerge(IF isObject(object) THEN object ELSE Obj(NoFields), source)

(***************************************************************************)
(* Object.assign(target, source), line 25: copies source's own fields onto *)
(* target and returns target; throws a TypeError for an undefined or null  *)
(* target.                                                                 *)
(***************************************************************************)
AssignThrows(target) == target.t \in {"undefined", "null"}

ObjectAssign(target, source) ==
  Obj([k \in Keys(target) \cup Keys(source) |->
        IF k \in Keys(source) THEN source.f[k] ELSE target.f[k]])

(***************************************************************************)
(* Inputs of the model.                                                    *)
(***************************************************************************)
\* typeof of a value handed to the factory as a callback
CallbackTypes == {"function", "undefined", "object"}

\* values a caller supplies for the fields of the options
CallerValue == [width |-> 400, height |-> 300, side |-> 10]

\* every partial margin: any subset of the sides, each with the caller's value
PartialMargins == {Obj([s \in S |-> Num(CallerValue.side)]) : S \in SUBSET Sides}

\* every partial options object over width, height and margin
PartialOptions ==
  {Obj([k \in W \cup H \cup DOMAIN M |->
         CASE k = "width" -> Num(CallerValue.width)
           [] k = "height" -> Num(CallerValue.height)
           [] k = "margin" -> M[k]]) :
     W \in {{}, {"width"}}, H \in {{}, {"height"}},
     M \in {NoFields} \cup {[k \in {"margin"} |-> m] : m \in PartialMargins}}

\* the options argument: a partial options object, or no argument at all
OptionArguments == PartialOptions \cup {Undefined}

\* the spec's example {width:400, margin:{top:10}}
ExampleOptions ==
  Obj([k \in {"width", "margin"} |->
        IF k = "width" THEN Num(CallerValue.width)
        ELSE Obj([s \in {"top"} |-> Num(CallerValue.side)])])

DataValues == {"d1", "d2"}

ClassNames == {"d3Conduit", "chart"}

Instances == 1..MaxInstances

VARIABLES
  initFn,          \* typeof of the first argument of d3Conduit
  renderFn,        \* typeof of the second argument of d3Conduit
  originalOptions, \* the object the caller passed, as the caller sees it
  passed,          \* what that object held when the caller passed it
  factory,         \* "uncalled", "returned" (a class was returned) or "threw"
  error,           \* message of the error the factory threw, "" for none
  options,         \* the options the returned class closes over
  inst,            \* the component instances: this.props, this.state, ...
  dom,             \* the svg element each instance renders
  windowOn,        \* window.__on: typename -> instance whose resize closure it holds
  log,             \* per instance: the ref binding, callback calls and registrations, in order
  delivered,       \* per instance: the data values the host handed over, in order
  threw,           \* per instance: a callback threw into the host
  resizeCalls,     \* per instance: calls of its resize closure made by a window event
  resizeEvents     \* window resize events fired so far

factoryVars == <<initFn, renderFn, originalOptions, passed, factory, error, options>>

instVars == <<inst, dom, windowOn, log, delivered, threw, resizeCalls, resizeEvents>>

vars == <<initFn, renderFn, originalOptions, passed, factory, error, options,
          inst, dom, windowOn, log, delivered, threw, resizeCalls, resizeEvents>>

(***************************************************************************)
(* The factory, lines 15-42.                                               *)
(***************************************************************************)
\* a plausible slip: the second typeof check left out
ValidateInitOnly(init, render) ==
  IF init # "function" THEN "must provide an initialise function" ELSE ""

\* lines 17-23: the message of the error thrown, "" when both are functions
Validate(init, render) ==
  IF init # "function" THEN "must provide an initialise function"
  ELSE IF render # "function" THEN "must provide a render function"
  ELSE ""

\* a plausible slip: the defaults assigned, not filled in
DefaultsAssigned(orig) == Defaults

\* lines 25-40: the destination after defaultsDeep filled it in place
FilledOptions(orig) == defaultsDeep(orig, Defaults)

\* what the caller's object holds once defaultsDeep has run: lodash writes
\* into the object it was given, and into a fresh one when given undefined
AfterDefaultsDeep(orig) == IF isObject(orig) THEN FilledOptions(orig) ELSE orig

\* a plausible slip: the options resolved before the callbacks are checked
d3ConduitMergesFirst ==
  /\ factory = "uncalled"
  /\ LET message == Validate(initFn, renderFn)
         target == AfterDefaultsDeep(originalOptions)
     IN  /\ originalOptions' = target
         /\ IF message # "" \/ AssignThrows(target)
            THEN /\ factory' = "threw"
                 /\ error' = IF AssignThrows(target)
                             THEN "TypeError: Cannot convert undefined or null to object"
                             ELSE message
                 /\ UNCHANGED options
            ELSE /\ factory' = "returned"
                 /\ error' = ""
                 /\ options' = target
  /\ UNCHANGED <<initFn, renderFn, passed>>
  /\ UNCHANGED instVars

d3Conduit ==
  /\ factory = "uncalled"
  /\ LET message == Validate(initFn, renderFn)
         target == AfterDefaultsDeep(originalOptions)
     IN  IF message # ""
         THEN /\ factory' = "threw"
              /\ error' = message
              /\ UNCHANGED <<originalOptions, options>>
         ELSE IF AssignThrows(target)
         THEN /\ factory' = "threw"
              /\ error' = "TypeError: Cannot convert undefined or null to object"
              /\ originalOptions' = target
              /\ UNCHANGED options
         ELSE /\ factory' = "returned"
              /\ error' = ""
              /\ options' = ObjectAssign(target, FilledOptions(originalOptions))
              \* options is the caller's object itself, not a copy
              /\ originalOptions' = options'
  /\ UNCHANGED <<initFn, renderFn, passed>>
  /\ UNCHANGED instVars

(***************************************************************************)
(* The component class D3Container, lines 42-137.                          *)
(***************************************************************************)
NoInstance ==
  [phase |-> "none", props |-> [data |-> "-", className |-> "-"],
   state |-> "-", id |-> 0, node |-> 0, width |-> Undefined,
   height |-> Undefined, queued |-> <<>>]

NoElement ==
  [attached |-> FALSE, className |-> "-", id |-> 0, width |-> Undefined,
   height |-> Undefined, viewBox |-> Undefined,
   preserveAspectRatio |-> "-"]

\* a call fn(this.node, this.state.data, options) of a callback
Call(fn, node, data) ==
  [fn |-> fn, node |-> node, data |-> data, options |-> options]

\* a step of the lifecycle that is no callback call, on element `node`
Event(fn, node) ==
  [fn |-> fn, node |-> node, data |-> "-", options |-> Undefined]

\* shortid generate(), line 62: an id no earlier instance has
generate == 1 + Cardinality({j \in Instances : inst[j].id # 0})

\* lines 55-68
constructor(props) ==
  [NoInstance EXCEPT !.phase = "constructed", !.props = props,
                     !.width = Get(options, "width"),
                     !.height = Get(options, "height"),
                     !.id = generate, !.state = props.data]

\* lines 117-136: the attributes of the svg element; React then creates the
\* element (i names instance i's element) and hands it to the ref callback
render(self) ==
  [NoElement EXCEPT !.attached = TRUE, !.className = self.props.className,
                    !.width = self.width, !.height = self.height,
                    !.id = self.id]

\* a plausible slip: the ref callback does not keep the node
refDropped(self, node) == self

\* lines 121-124: the ref callback
ref(self, node) == [self EXCEPT !.node = node]

\* a plausible slip: one listener name for every instance
SharedTypename(id) == <<"resize", 0>>

\* line 114: the typename `resize.${svg.attr('id')}`, type and name
ResizeTypename(id) == <<"resize", id>>

\* lines 102-106: the resize closure over the svg selection
resize(svg) == [svg EXCEPT !.width = Str("100%"), !.height = Str("100%")]

\* lines 99-100: parseInt of the computed style, NaN when it has no pixels
parseInt(rendered, attr) == IF rendered = "pixels" THEN attr ELSE NaN

\* lines 97-112: viewBox, preserveAspectRatio and the first resize
makeResponsiveSVG(svg, rendered) ==
  resize([svg EXCEPT
            !.viewBox = <<Num(0), Num(0), parseInt(rendered, svg.width),
                          parseInt(rendered, svg.height)>>,
            !.preserveAspectRatio = "xMinYMid"])

\* lines 113-114: d3 selection.on, which replaces a listener of the same
\* typename and adds one otherwise
on(listeners, typename, owner) ==
  [n \in DOMAIN listeners \cup {typename} |->
     IF n = typename THEN owner ELSE listeners[n]]

\* a plausible slip: the data drawn before the axes and labels
DidMountDrawsFirst(self) ==
  <<Call("renderFn", self.node, self.state),
    Call("initFn", self.node, self.state)>>

\* lines 78-80: the callbacks componentDidMount calls, in order
DidMountCalls(self) ==
  <<Call("initFn", self.node, self.state),
    Call("renderFn", self.node, self.state)>>

\* a plausible slip: the callbacks wrapped in try/catch
CallsDespiteThrow(calls, outcome) == calls

\* the calls made before `outcome` ends the hook: a callback that throws
\* ends it, and the error reaches React
CallsUntil(calls, outcome) ==
  IF outcome = "initFn throws" THEN SubSeq(calls, 1, 1)
  ELSE calls

Outcomes == {"ok", "initFn throws", "renderFn throws"}

\* the error of a callback that threw, on its way to React
Thrown(i, outcome) == IF outcome = "ok" THEN <<>> ELSE <<Event(outcome, i)>>

\* React mounts instance i: constructor, render, the ref callback (lines
\* 121-124), then componentDidMount (lines 76-82)
Mount(i, props, rendered, outcome) ==
  /\ factory = "returned"
  /\ inst[i].phase = "none"
  /\ \A j \in Instances : j < i => inst[j].phase # "none"
  /\ LET built == constructor(props)
         self == ref([built EXCEPT !.phase = "mounted"], i)
         svg == render(self)
     IN  /\ inst' = [inst EXCEPT ![i] = self]
         /\ delivered' = [delivered EXCEPT ![i] = <<props.data>>]
         /\ threw' = [threw EXCEPT ![i] = outcome # "ok"]
         /\ IF outcome = "ok"
            THEN /\ log' = [log EXCEPT ![i] =
                              <<Event("ref", i)>> \o DidMountCalls(self)
                              \o <<Event("on", i)>>]
                 /\ dom' = [dom EXCEPT ![i] = makeResponsiveSVG(svg, rendered)]
                 /\ windowOn' = on(windowOn, ResizeTypename(svg.id), i)
            ELSE /\ log' = [log EXCEPT ![i] =
                              <<Event("ref", i)>>
                              \o CallsUntil(DidMountCalls(self), outcome)
                              \o Thrown(i, outcome)]
                 /\ dom' = [dom EXCEPT ![i] = svg]
                 /\ UNCHANGED windowOn
  /\ UNCHANGED <<resizeCalls, resizeEvents>>
  /\ UNCHANGED factoryVars

\* React has no update of instance i in flight
Idle(i) == inst[i].queued = <<>>

Live(i) == inst[i].phase = "mounted" /\ ~threw[i]

Deliveries == Cardinality({<<j, k>> \in Instances \X (1..(MaxDeliveries + 1)) :
                            1 < k /\ k <= Len(delivered[j])})

\* lines 84-89: React hands instance i its next props (on every render of
\* the parent, whether or not a prop changed); setState queues the new state
\* and the callback, which React runs when it commits the update.  React
\* works through one update of an instance, hook to commit, before it takes
\* the next one for that instance
componentWillReceiveProps(i, nextProps) ==
  /\ Live(i) /\ Idle(i)
  /\ Deliveries < MaxDeliveries
  /\ inst' = [inst EXCEPT ![i].props = nextProps,
                          ![i].queued = <<nextProps.data>>]
  /\ delivered' = [delivered EXCEPT ![i] = Append(@, nextProps.data)]
  /\ UNCHANGED <<dom, windowOn, log, threw, resizeCalls, resizeEvents>>
  /\ UNCHANGED factoryVars

\* a plausible slip: the queued state never applied
setStateDropped(self) == [self EXCEPT !.queued = <<>>]

\* line 85: React applies the queued state { data }
setState(self) == [self EXCEPT !.state = self.queued[1], !.queued = <<>>]

\* a plausible slip: the initial draw repeated on an update
CallbackReinitialises(self) ==
  <<Call("initFn", self.node, self.state),
    Call("renderFn", self.node, self.state)>>

\* line 86: the calls the setState callback makes
CallbackCalls(self) == <<Call("renderFn", self.node, self.state)>>

\* a plausible slip: React's default, every update renders again
shouldComponentUpdateDefault == TRUE

\* lines 70-74
shouldComponentUpdate == FALSE

\* what a second render would do to the svg: React writes the attributes
\* whose rendered value changed, and of lines 125-128 only className can
\* (this.width, this.height and this.id are set in the constructor alone)
Rerender(svg, self) == [svg EXCEPT !.className = self.props.className]

\* React commits instance i's update: the state is replaced, render runs
\* again only if shouldComponentUpdate allows it, and the callback of lines
\* 85-88 runs
setStateCallback(i, outcome) ==
  /\ inst[i].phase = "mounted" /\ ~Idle(i)
  /\ LET self == setState(inst[i])
     IN  /\ inst' = [inst EXCEPT ![i] = self]
         /\ log' = [log EXCEPT ![i] =
                      @ \o CallbackCalls(self) \o Thrown(i, outcome)]
         /\ dom' = IF shouldComponentUpdate
                    THEN [dom EXCEPT ![i] = Rerender(@, self)]
                    ELSE dom
  /\ threw' = [threw EXCEPT ![i] = outcome # "ok"]
  /\ UNCHANGED <<windowOn, delivered, resizeCalls, resizeEvents>>
  /\ UNCHANGED factoryVars

\* a plausible slip: a last draw once the svg is out of the document
componentWillUnmountRedraws(i) ==
  /\ inst[i].phase = "mounted" /\ inst[i].queued = <<>>
  /\ dom' = [dom EXCEPT ![i].attached = FALSE]
  /\ inst' = [inst EXCEPT ![i].phase = "removed", ![i].node = 0]
  /\ log' = [log EXCEPT ![i] =
                @ \o <<Event("remove", i),
                       Call("renderFn", inst[i].node, inst[i].state)>>]
  /\ UNCHANGED <<windowOn, delivered, threw, resizeCalls, resizeEvents>>
  /\ UNCHANGED factoryVars

\* lines 91-95: select(this.node).remove() takes the svg out of the
\* document; React then calls the ref callback with null.  An instance
\* React is updating is not unmounted before that update is committed
componentWillUnmount(i) ==
  /\ inst[i].phase = "mounted" /\ Idle(i)
  /\ dom' = [dom EXCEPT ![i].attached = FALSE]
  /\ inst' = [inst EXCEPT ![i].phase = "removed", ![i].node = 0]
  /\ log' = [log EXCEPT ![i] = Append(@, Event("remove", i))]
  /\ UNCHANGED <<windowOn, delivered, threw, resizeCalls, resizeEvents>>
  /\ UNCHANGED factoryVars

\* a plausible slip: the data redrawn on every resize
ResizeRedraws(self) == <<Call("renderFn", self.node, self.state)>>

\* lines 102-106: the callback calls the resize closure makes, none
ResizeCalls(self) == <<>>

\* the instances whose resize closure window holds
Listening == {windowOn[n] : n \in DOMAIN windowOn}

\* the browser fires resize on window: every registered closure runs.  The
\* event is a task of its own and does not run inside an update of React
WindowResize ==
  /\ resizeEvents < MaxResize
  /\ \A i \in Instances : Idle(i)
  /\ DOMAIN windowOn # {}
  /\ resizeEvents' = resizeEvents + 1
  /\ dom' = [i \in Instances |->
               IF i \in Listening THEN resize(dom[i]) ELSE dom[i]]
  /\ resizeCalls' = [i \in Instances |->
                       IF i \in Listening THEN resizeCalls[i] + 1
                       ELSE resizeCalls[i]]
  /\ log' = [i \in Instances |->
               IF i \in Listening THEN log[i] \o ResizeCalls(inst[i])
               ELSE log[i]]
  /\ UNCHANGED <<inst, windowOn, delivered, threw>>
  /\ UNCHANGED factoryVars

(***************************************************************************)
(* Specifications.                                                         *)
(***************************************************************************)
InitInstances ==
  /\ inst = [i \in Instances |-> NoInstance]
  /\ dom = [i \in Instances |-> NoElement]
  /\ windowOn = [n \in {} |-> 0]
  /\ log = [i \in Instances |-> <<>>]
  /\ delivered = [i \in Instances |-> <<>>]
  /\ threw = [i \in Instances |-> FALSE]
  /\ resizeCalls = [i \in Instances |-> 0]
  /\ resizeEvents = 0

InitFactory(callbacks, arguments) ==
  /\ initFn \in callbacks
  /\ renderFn \in callbacks
  /\ originalOptions \in arguments
  /\ passed = originalOptions
  /\ factory = "uncalled"
  /\ error = ""
  /\ options = Undefined

\* the host's events for the instances `insts`, with the callbacks ending as
\* `outcomes` allow
Lifecycle(insts, classes, styles, outcomes) ==
  \/ \E i \in insts, d \in DataValues, c \in classes, rendered \in styles,
        outcome \in outcomes :
       Mount(i, [data |-> d, className |-> c], rendered, outcome)
  \/ \E i \in insts, d \in DataValues, c \in classes :
       componentWillReceiveProps(i, [data |-> d, className |-> c])
  \/ \E i \in insts, outcome \in outcomes \ {"initFn throws"} :
       setStateCallback(i, outcome)
  \/ \E i \in insts : componentWillUnmount(i)
  \/ WindowResize

\* one instance of the class, for every typeof of the callbacks, for the
\* spec's example options and for no options
Init == InitFactory(CallbackTypes, {ExampleOptions, Undefined}) /\ InitInstances

Next ==
  \/ d3Conduit
  \/ Lifecycle({1}, ClassNames, {"pixels", "none"}, Outcomes)

Spec == Init /\ [][Next]_vars

\* several instances of the class side by side, their callbacks returning
InitShared == InitFactory({"function"}, {ExampleOptions}) /\ InitInstances

NextShared ==
  \/ d3Conduit
  \/ Lifecycle(Instances, {"d3Conduit"}, {"pixels"}, {"ok"})

SpecShared == InitShared /\ [][NextShared]_vars

\* the factory alone, for every options argument
InitOptions == InitFactory(CallbackTypes, OptionArguments) /\ InitInstances

SpecOptions == InitOptions /\ [][d3Conduit]_vars

(***************************************************************************)
(* What the callbacks saw.                                                 *)
(***************************************************************************)
Calls(i) == SelectSeq(log[i], LAMBDA e : e.fn \in {"initFn", "renderFn"})

Inits(i) == SelectSeq(log[i], LAMBDA e : e.fn = "initFn")

Renders(i) == SelectSeq(log[i], LAMBDA e : e.fn = "renderFn")

\* the deliveries after the first whose data differs from the data before
NewData(i) ==
  {k \in 2..Len(delivered[i]) : delivered[i][k] # delivered[i][k - 1]}

(***************************************************************************)
(* C1: initFn is called exactly once per instance, at mount, before the    *)
(* first renderFn call, and never again on a later delivery, resize or     *)
(* unmount.                                                                *)
(***************************************************************************)
C1_InitOnceAtMount ==
  \A i \in Instances :
    /\ inst[i].phase = "none" => Calls(i) = <<>>
    /\ inst[i].phase # "none" =>
         /\ Len(Inits(i)) = 1
         /\ Calls(i)[1].fn = "initFn"

C1_Witness ==
  \E i \in Instances :
    /\ inst[i].phase = "removed"
    /\ Len(Renders(i)) = 3
    /\ resizeCalls[i] > 0

(***************************************************************************)
(* C2: for the data d0..dn handed to an instance (d0 at mount), initFn is  *)
(* called once with d0 and renderFn n+1 times, the k-th call with the k-th *)
(* value; while an update is in flight or after a callback threw, the      *)
(* calls made so far are the first ones of that sequence.                  *)
(***************************************************************************)
C2_UpdatePerDelivery ==
  \A i \in Instances :
    inst[i].phase # "none" =>
      LET d == delivered[i]
          expected == [k \in 1..Len(d) |-> Call("renderFn", i, d[k])]
      IN  /\ Inits(i) = <<Call("initFn", i, d[1])>>
          /\ Len(Renders(i)) <= Len(d)
          /\ Renders(i) = SubSeq(expected, 1, Len(Renders(i)))
          /\ (Idle(i) /\ ~threw[i]) => Renders(i) = expected

C2_Witness ==
  \E i \in Instances :
    /\ Idle(i) /\ ~threw[i]
    /\ Len(delivered[i]) = 3
    /\ delivered[i][2] # delivered[i][3]
    /\ Len(Renders(i)) = 3

(***************************************************************************)
(* C3: window holds a resize listener for an instance's id exactly while   *)
(* that instance is mounted.                                               *)
(***************************************************************************)
C3_BindingIffMounted ==
  /\ \A i \in Instances : i \in Listening <=> inst[i].phase = "mounted"
  /\ DOMAIN windowOn =
       {ResizeTypename(inst[i].id) : i \in {j \in Instances : inst[j].phase = "mounted"}}

(***************************************************************************)
(* C4: the unmount step leaves no resize listener of the instance on       *)
(* window, and no window resize event after the unmount runs the           *)
(* instance's resize closure.                                              *)
(***************************************************************************)
C4_AtomicTeardown ==
  [][\A i \in Instances :
       /\ inst'[i].phase = "removed" => i \notin {windowOn'[n] : n \in DOMAIN windowOn'}
       /\ inst[i].phase = "removed" => resizeCalls'[i] = resizeCalls[i]]_vars

(***************************************************************************)
(* C5: instances have distinct ids and so distinct listener typenames;     *)
(* each typename on window holds the closure of the instance whose id it   *)
(* carries, and a mounted instance's listener is neither overwritten by    *)
(* another instance's mount nor removed by another instance's unmount.     *)
(***************************************************************************)
C5_ListenersIndependent ==
  /\ \A i, j \in Instances :
       (i # j /\ inst[i].phase # "none" /\ inst[j].phase # "none") =>
         /\ inst[i].id # inst[j].id
         /\ ResizeTypename(inst[i].id) # ResizeTypename(inst[j].id)
  /\ \A n \in DOMAIN windowOn : n = ResizeTypename(inst[windowOn[n]].id)
  /\ \A i \in Instances :
       inst[i].phase = "mounted" =>
         /\ ResizeTypename(inst[i].id) \in DOMAIN windowOn
         /\ windowOn[ResizeTypename(inst[i].id)] = i

C5_Witness ==
  \E i, j \in Instances :
    /\ i < j
    /\ inst[i].phase = "mounted" /\ inst[j].phase = "removed"
    /\ resizeCalls[i] > 0 /\ resizeCalls[j] > 0
    /\ Len(Renders(i)) > 1

(***************************************************************************)
(* C6: when initFn or renderFn is not a function the factory throws its    *)
(* own error (for initFn first), returns no class, and no instance exists  *)
(* and no callback is ever called.                                         *)
(***************************************************************************)
C6_FailFast ==
  (initFn # "function" \/ renderFn # "function") =>
    /\ factory \in {"uncalled", "threw"}
    /\ options = Undefined
    /\ factory = "threw" =>
         error = IF initFn # "function"
                 THEN "must provide an initialise function"
                 ELSE "must provide a render function"
    /\ \A i \in Instances : inst[i].phase = "none" /\ log[i] = <<>>

C6_Witness ==
  /\ initFn = "function" /\ renderFn = "object"
  /\ factory = "threw"
  /\ error = "must provide a render function"

(***************************************************************************)
(* C7: with two functions as callbacks the factory returns a class for     *)
(* every options argument, a missing one included.                         *)
(***************************************************************************)
C7_ConstructionSucceeds ==
  (initFn = "function" /\ renderFn = "function" /\ factory # "uncalled") =>
    factory = "returned"

(***************************************************************************)
(* C8: the resolved options hold, for width, height and each margin side,  *)
(* the caller's value where the caller supplied one and the default        *)
(* otherwise.                                                              *)
(***************************************************************************)
Supplied(o, k) == isObject(o) /\ k \in Keys(o)

C8_FillIfAbsent ==
  factory = "returned" =>
    /\ Keys(options) = {"width", "height", "margin"}
    /\ options.f["width"] =
         IF Supplied(passed, "width") THEN passed.f["width"] ELSE Num(900)
    /\ options.f["height"] =
         IF Supplied(passed, "height") THEN passed.f["height"] ELSE Num(500)
    /\ Keys(options.f["margin"]) = Sides
    /\ \A s \in Sides :
         options.f["margin"].f[s] =
           IF Supplied(passed, "margin") /\ Supplied(passed.f["margin"], s)
           THEN passed.f["margin"].f[s]
           ELSE CASE s = "top" -> Num(120) [] s = "right" -> Num(50)
                  [] s = "bottom" -> Num(150) [] s = "left" -> Num(150)

C8_Witness ==
  /\ factory = "returned"
  /\ passed = ExampleOptions
  /\ options.f["width"] = Num(400)
  /\ options.f["height"] = Num(500)
  /\ options.f["margin"] =
       Obj([s \in Sides |->
             CASE s = "top" -> Num(10) [] s = "right" -> Num(50)
               [] s = "bottom" -> Num(150) [] s = "left" -> Num(150)])

(***************************************************************************)
(* C9: resolving the options leaves the object the caller passed as the    *)
(* caller passed it.                                                       *)
(***************************************************************************)
C9_CallerOptionsUntouched == originalOptions = passed

(***************************************************************************)
(* C10: renderFn is called only at mount and for a delivery of new data:   *)
(* the calls number at most one plus the deliveries whose data differs     *)
(* from the data before.                                                   *)
(***************************************************************************)
C10_UpdateOnlyOnNewData ==
  \A i \in Instances :
    /\ Len(Renders(i)) <= 1 + Cardinality(NewData(i))
    /\ Len(Inits(i)) <= 1

(***************************************************************************)
(* C11: a mounted instance holds its own svg element, bound by the ref     *)
(* callback before any callback call; every initFn and renderFn call of    *)
(* the instance receives that element, never null, and no element is       *)
(* handed to the callbacks of two instances.                               *)
(***************************************************************************)
C11_OneNodePerInstance ==
  /\ \A i \in Instances :
       /\ inst[i].phase = "mounted" =>
            /\ inst[i].node = i
            /\ dom[i].attached
       /\ Calls(i) # <<>> => log[i][1] = Event("ref", i)
       /\ \A k \in 1..Len(Calls(i)) :
            /\ Calls(i)[k].node # 0
            /\ Calls(i)[k].node = Calls(i)[1].node
  /\ \A i, j \in Instances :
       i # j =>
         \A k \in 1..Len(Calls(i)), l \in 1..Len(Calls(j)) :
           Calls(i)[k].node # Calls(j)[l].node

C11_Witness ==
  \E i, j \in Instances :
    /\ i # j
    /\ inst[i].phase = "mounted" /\ inst[j].phase = "mounted"
    /\ Len(Renders(i)) = 2 /\ Len(Renders(j)) = 2

(***************************************************************************)
(* C12: the mount binds the node, calls initFn(node, data, options), then  *)
(* renderFn with the same arguments, then registers the resize listener:   *)
(* these are the first entries of the instance's history in that order,    *)
(* and the listener is on window only after the first renderFn call.       *)
(***************************************************************************)
C12_MountOrder ==
  \A i \in Instances :
    inst[i].phase # "none" =>
      LET d0 == delivered[i][1]
          ons == SelectSeq(log[i], LAMBDA e : e.fn = "on")
          refs == SelectSeq(log[i], LAMBDA e : e.fn = "ref")
      IN  /\ Len(log[i]) >= 2
          /\ log[i][1] = Event("ref", i)
          /\ log[i][2] = Call("initFn", i, d0)
          /\ log[i][2].options = options
          /\ Len(refs) = 1 /\ Len(ons) <= 1
          /\ Renders(i) # <<>> =>
               /\ log[i][3] = Call("renderFn", i, d0)
               /\ log[i][3].options = log[i][2].options
          /\ ons # <<>> => (Len(log[i]) >= 4 /\ log[i][4] = Event("on", i))
          /\ i \in Listening <=> ons # <<>>

C12_Witness ==
  \E i \in Instances :
    /\ i \in Listening
    /\ Len(log[i]) = 5
    /\ log[i][5].fn = "renderFn"

(***************************************************************************)
(* C13: a callback that throws ends the hook and the error reaches React:  *)
(* after initFn threw at mount renderFn was not called and no listener is  *)
(* registered; after renderFn threw at mount no listener is registered;    *)
(* after renderFn threw on a delivery it was called once for that delivery *)
(* and the held data is the delivered one; nothing is called afterwards.   *)
(***************************************************************************)
C13_ErrorsPropagate ==
  \A i \in Instances :
    LET has(fn) == \E k \in 1..Len(log[i]) : log[i][k].fn = fn
        last == delivered[i][Len(delivered[i])]
    IN  /\ has("initFn throws") =>
             /\ Renders(i) = <<>>
             /\ ~has("on") /\ i \notin Listening
        /\ (has("renderFn throws") /\ Len(delivered[i]) = 1) =>
             /\ Len(Renders(i)) = 1
             /\ ~has("on") /\ i \notin Listening
        /\ (has("renderFn throws") /\ Len(delivered[i]) > 1) =>
             /\ Len(Renders(i)) = Len(delivered[i])
             /\ inst[i].state = last
        /\ (has("initFn throws") \/ has("renderFn throws")) =>
             /\ threw[i]
             /\ \A k \in 1..Len(log[i]) :
                  log[i][k].fn \in {"initFn throws", "renderFn throws"} =>
                    /\ k > 1 /\ log[i][k - 1].fn \in {"initFn", "renderFn"}
                    /\ \A l \in (k + 1)..Len(log[i]) : log[i][l].fn = "remove"
        /\ threw[i] => (has("initFn throws") \/ has("renderFn throws"))

C13_Witness ==
  \E i \in Instances :
    /\ threw[i]
    /\ inst[i].phase = "removed"
    /\ Len(delivered[i]) = 3
    /\ delivered[i][2] # delivered[i][3]
    /\ resizeCalls[i] > 0

(***************************************************************************)
(* C14: from the hand-over of data dk to an instance until its commit, the *)
(* only step that touches the instance is that commit, which replaces the  *)
(* held data by dk and calls renderFn with dk; the hand-over itself queues *)
(* dk and nothing else.                                                    *)
(***************************************************************************)
C14_UpdateFollowsDelivery ==
  [][\A i \in Instances :
       LET dk == delivered[i][Len(delivered[i])]
       IN  /\ ~Idle(i) =>
                \/ /\ inst'[i] = inst[i]
                   /\ log'[i] = log[i]
                   /\ delivered'[i] = delivered[i]
                \/ /\ Idle(i)'
                   /\ inst'[i].phase = "mounted"
                   /\ inst[i].queued = <<dk>>
                   /\ inst'[i].state = dk
                   /\ delivered'[i] = delivered[i]
                   /\ log'[i] = Append(log[i], Call("renderFn", i, dk))
           /\ (Idle(i) /\ ~Idle(i)') =>
                /\ delivered'[i] = Append(delivered[i], inst'[i].queued[1])
                /\ inst'[i].state = inst[i].state
                /\ log'[i] = log[i]]_vars

C14_Witness ==
  \E i, j \in Instances :
    /\ i # j
    /\ Idle(i) /\ Len(Renders(i)) = 2
    /\ inst[i].state = delivered[i][2] /\ delivered[i][1] # delivered[i][2]
    /\ ~Idle(j)

(***************************************************************************)
(* C15: a window resize event sets width and height of the svg of every    *)
(* instance with a listener to 100% and does nothing else: no callback     *)
(* call, no change of the held or delivered data, of the listeners, of     *)
(* viewBox or preserveAspectRatio, or of any other instance's svg.         *)
(***************************************************************************)
C15_ResizeOnlyFills ==
  [][resizeEvents' # resizeEvents =>
       /\ log' = log /\ inst' = inst /\ delivered' = delivered
       /\ windowOn' = windowOn
       /\ \A i \in Instances :
            IF i \in Listening
            THEN /\ dom'[i] = [dom[i] EXCEPT !.width = Str("100%"),
                                             !.height = Str("100%")]
                 /\ dom'[i].viewBox = dom[i].viewBox
                 /\ dom'[i].viewBox # Undefined
                 /\ dom'[i].preserveAspectRatio = "xMinYMid"
                 /\ resizeCalls'[i] = resizeCalls[i] + 1
            ELSE /\ dom'[i] = dom[i]
                 /\ resizeCalls'[i] = resizeCalls[i]]_vars

C15_Witness ==
  \E i, j \in Instances :
    /\ i # j
    /\ resizeCalls[i] = 2 /\ resizeCalls[j] = 1
    /\ Len(Renders(i)) = 3
    /\ delivered[i] = <<"d1", "d2", "d1">>
    /\ dom[i].viewBox = <<Num(0), Num(0), Num(400), Num(500)>>
    /\ dom[i].width = Str("100%")

(***************************************************************************)
(* C16 as claimed: the svg's className, width, height and id are those     *)
(* render gave it at the mount and never change afterwards, and neither    *)
(* does the instance's id.                                                 *)
(***************************************************************************)
C16_SurfaceAsFirstRendered ==
  [][\A i \in Instances :
       /\ (inst[i].phase = "none" /\ inst'[i].phase # "none") =>
            /\ dom'[i].className = inst'[i].props.className
            /\ dom'[i].id = inst'[i].id
            /\ dom'[i].width = inst'[i].width
            /\ dom'[i].height = inst'[i].height
       /\ inst[i].phase # "none" =>
            /\ dom'[i].className = dom[i].className
            /\ dom'[i].id = dom[i].id
            /\ dom'[i].width = dom[i].width
            /\ dom'[i].height = dom[i].height
            /\ inst'[i].id = inst[i].id]_vars

(***************************************************************************)
(* C16 as amended: render runs once; the svg's className and id are those  *)
(* of that render and never change, and neither does the instance's id;    *)
(* width and height are the rendered ones only if the mount was cut short  *)
(* by a throw, otherwise makeResponsiveSVG has set both to 100% by the end *)
(* of the mount; after the mount they never change.                        *)
(***************************************************************************)
C16_SurfaceRenderedOnce ==
  [][\A i \in Instances :
       /\ (inst[i].phase = "none" /\ inst'[i].phase # "none") =>
            /\ dom'[i].className = inst'[i].props.className
            /\ dom'[i].id = inst'[i].id
            /\ inst'[i].id # 0
            /\ inst'[i].width = Get(options, "width")
            /\ inst'[i].height = Get(options, "height")
            /\ IF threw'[i]
               THEN /\ dom'[i].width = inst'[i].width
                    /\ dom'[i].height = inst'[i].height
               ELSE /\ dom'[i].width = Str("100%")
                    /\ dom'[i].height = Str("100%")
       /\ inst[i].phase # "none" =>
            /\ dom'[i].className = dom[i].className
            /\ dom'[i].id = dom[i].id
            /\ dom'[i].width = dom[i].width
            /\ dom'[i].height = dom[i].height
            /\ inst'[i].id = inst[i].id
            /\ inst'[i].width = inst[i].width
            /\ inst'[i].height = inst[i].height]_vars

C16_Witness ==
  \E i \in Instances :
    /\ Idle(i) /\ Len(Renders(i)) = 3
    /\ inst[i].props.className # dom[i].className
    /\ dom[i].width = Str("100%")
    /\ inst[i].width = Num(400)
    /\ resizeCalls[i] > 0

(***************************************************************************)
(* C17: for every options object the caller passes, the options the class  *)
(* closes over equal one recursive fill-if-absent merge of the defaults    *)
(* into what the caller passed; assigning the filled object onto itself    *)
(* adds nothing.                                                           *)
(***************************************************************************)
C17_DoubleMergeRedundant ==
  (factory = "returned" /\ isObject(passed)) =>
    /\ options = baseMerge(passed, Defaults)
    /\ originalOptions = baseMerge(passed, Defaults)

C17_Witness ==
  /\ factory = "returned"
  /\ Keys(passed) = {"height", "margin"}
  /\ Keys(passed.f["margin"]) = {"left", "bottom"}
  /\ options # passed
  /\ options.f["margin"].f["left"] = Num(10)
  /\ options.f["margin"].f["top"] = Num(120)

(***************************************************************************)
(* C19: when the factory throws because initFn or renderFn is no function  *)
(* (initFn checked first), the caller's options object is as the caller    *)
(* passed it and no options were resolved.                                 *)
(***************************************************************************)
C19_FailedConstructionTouchesNothing ==
  (factory # "uncalled" /\ (initFn # "function" \/ renderFn # "function")) =>
    /\ factory = "threw"
    /\ error = IF initFn # "function"
               THEN "must provide an initialise function"
               ELSE "must provide a render function"
    /\ originalOptions = passed
    /\ options = Undefined

C19_Witness ==
  /\ factory = "threw"
  /\ initFn = "function" /\ renderFn = "undefined"
  /\ isObject(passed) /\ Keys(passed) = {"width"}
  /\ originalOptions = passed

(***************************************************************************)
(* C18: once an instance is removed nothing of it changes and no callback  *)
(* is called for it again: the removal is the last entry of its history,   *)
(* every delivery accepted before it had its renderFn call before it, and  *)
(* every initFn and renderFn call was made with the instance's own node,   *)
(* not null, while the svg was still in the document.                      *)
(***************************************************************************)
C18_RemovedIsTerminal ==
  [][\A i \in Instances :
       /\ inst[i].phase = "removed" =>
            /\ inst'[i] = inst[i]
            /\ log'[i] = log[i]
            /\ delivered'[i] = delivered[i]
            /\ ~dom'[i].attached
       /\ inst'[i].phase = "removed" =>
            /\ inst'[i].queued = <<>>
            /\ log'[i][Len(log'[i])].fn = "remove"
            /\ ~threw'[i] => Len(Renders(i)') = Len(delivered'[i])
       /\ \A k \in 1..Len(log'[i]) :
            log'[i][k].fn \in {"initFn", "renderFn"} =>
              /\ log'[i][k].node = i
              /\ \A l \in 1..k : log'[i][l].fn # "remove"
       /\ Len(log'[i]) > Len(log[i]) =>
            (log'[i][Len(log'[i])].fn \in {"initFn", "renderFn"} =>
               (inst'[i].node = i /\ dom'[i].attached))]_vars

C18_Witness ==
  \E i \in Instances :
    /\ inst[i].phase = "removed"
    /\ inst[i].node = 0
    /\ ~threw[i]
    /\ Len(Renders(i)) = 3
    /\ resizeCalls[i] = 2
    /\ resizeEvents = 2

=============================================================================
